---- MODULE Spec2Model ----
(***************************************************************************)
(* Model of list_zip_archive (Sources/CShims/shims.c): the listing of the  *)
(* entries of an opened minizip reader.  The reader library itself is an   *)
(* external collaborator; its three calls (goto_first_entry,               *)
(* entry_get_info, goto_next_entry) are modelled by the status they return *)
(* and by the cursor they move over the archive's entries.                 *)
(***************************************************************************)
EXTENDS Integers, Sequences, FiniteSets, TLC

(* ------------------------------------------------------------------ *)
(* Bounds of the model                                                 *)
(* ------------------------------------------------------------------ *)

\* longest archive enumerated under Spec
MaxEntries == 3

\* sizes 0..MaxSize are drawn for a single entry under SpecEntry
MaxSize == 7

\* flags words 0..MaxFlag are drawn for a single entry under SpecEntry
MaxFlag == 9

\* sizes m * 2^k with m in 0..MaxMant are drawn under SpecWide
MaxMant == 3

\* modification dates from MaxYears years before January 1900 to MaxYears
\* years after it are drawn under SpecDate
MaxYears == 130

(* ------------------------------------------------------------------ *)
(* Status codes and constants of the reader library used by the code   *)
(* ------------------------------------------------------------------ *)

MZ_OK == 0

MZ_END_OF_LIST == -100

MZ_PARAM_ERROR == -102

MZ_EXIST_ERROR == -107

MZ_ZIP_FLAG_ENCRYPTED == 1

MZ_COMPRESS_METHOD_STORE == 0

MZ_COMPRESS_METHOD_DEFLATE == 8

MZ_COMPRESS_METHOD_BZIP2 == 12

MZ_COMPRESS_METHOD_LZMA == 14

\* statuses other than MZ_OK and MZ_END_OF_LIST that a cursor call may return
FatalCodes == {MZ_PARAM_ERROR, MZ_EXIST_ERROR}

\* statuses other than MZ_OK that mz_zip_reader_entry_get_info may return:
\* the code only tests err != MZ_OK, so any int32 other than 0 is a failure
FetchFailCodes == FatalCodes \cup {MZ_END_OF_LIST}

(* ------------------------------------------------------------------ *)
(* Entry metadata (mz_zip_file) read by the lister                     *)
(* ------------------------------------------------------------------ *)

SizeValues == (0 .. MaxSize) \cup {50, 100, 200, 300}

FlagValues == 0 .. MaxFlag

\* the largest flags word: mz_zip_file.flag is a uint16_t
FlagWordMax == 65535


MethodValues == {MZ_COMPRESS_METHOD_STORE, MZ_COMPRESS_METHOD_DEFLATE,
                 MZ_COMPRESS_METHOD_BZIP2, MZ_COMPRESS_METHOD_LZMA, 1, 99}

\* modified_date is counted in months from January 1900 (960 is January
\* 1980, the earliest DOS date); the other fields of the time_t do not
\* reach the month and the year of the row
FileInfo(cs, us, fl, cm, fn) ==
    [compressed_size |-> cs, uncompressed_size |-> us, flag |-> fl,
     compression_method |-> cm, filename |-> fn, modified_date |-> 960]

DatedInfo(fi, d) == [fi EXCEPT !.modified_date = d]

DateValues == (0 - 12 * MaxYears) .. (12 * MaxYears + 11)

\* an entry for each modification date, listed under SpecDate
DateInfos ==
    { DatedInfo(FileInfo(50, 200, 0, MZ_COMPRESS_METHOD_STORE, "a.txt"), d) :
        d \in DateValues }

\* every metadata record a single entry may carry under SpecEntry
EntryInfos ==
    { FileInfo(cs, us, fl, cm, "a.txt") :
        cs \in SizeValues, us \in SizeValues, fl \in FlagValues, cm \in MethodValues }

\* a deflated entry for each 16-bit flags word, listed under SpecFlags
FlagInfos ==
    { FileInfo(50, 200, fl, MZ_COMPRESS_METHOD_DEFLATE, "a.txt") : fl \in 0 .. FlagWordMax }

\* the entries archives are built from under Spec; two of them share a
\* filename and differ in everything else
ListInfos ==
    { FileInfo(0, 0, 0, MZ_COMPRESS_METHOD_STORE, "a.txt"),
      FileInfo(50, 200, 1, MZ_COMPRESS_METHOD_DEFLATE, "a.txt"),
      FileInfo(300, 100, 2, MZ_COMPRESS_METHOD_BZIP2, "b.bin"),
      FileInfo(3, 0, 5, 99, "c") }

\* value of file_info before the first fetch (NULL)
NoInfo == FileInfo(0, 0, 0, 0, "")

RECURSIVE SeqsUpTo(_, _)
SeqsUpTo(S, n) ==
    IF n = 0 THEN {<<>>}
    ELSE LET shorter == SeqsUpTo(S, n - 1)
         IN  shorter \cup { Append(s, e) : s \in { t \in shorter : Len(t) = n - 1 }, e \in S }

(* ------------------------------------------------------------------ *)
(* Integers wider than the checker's: a natural number as the sequence *)
(* of its digits in base 2^15, least significant first, without leading *)
(* zeros                                                                *)
(* ------------------------------------------------------------------ *)

LimbBits == 15

LimbBase == 32768

RECURSIVE BigNorm(_)
BigNorm(a) ==
    IF a = <<>> THEN <<>>
    ELSE IF a[Len(a)] = 0 THEN BigNorm(SubSeq(a, 1, Len(a) - 1))
    ELSE a

RECURSIVE BigOfNat(_)
BigOfNat(n) == IF n = 0 THEN <<>> ELSE <<n % LimbBase>> \o BigOfNat(n \div LimbBase)

RECURSIVE BigToNat(_)
\* defined for values below 2^31
BigToNat(a) == IF a = <<>> THEN 0 ELSE a[1] + LimbBase * BigToNat(Tail(a))

\* a * LimbBase^k
BigShiftLimbs(a, k) == IF a = <<>> THEN <<>> ELSE [i \in 1 .. k |-> 0] \o a

\* 2^k
Pow2Big(k) == BigShiftLimbs(<<2 ^ (k % LimbBits)>>, k \div LimbBits)

BigLimb(a, i) == IF i <= Len(a) THEN a[i] ELSE 0

\* a mod 2^w
BigLow(a, w) ==
    BigNorm([i \in 1 .. (w \div LimbBits) + 1 |->
               IF i <= w \div LimbBits THEN BigLimb(a, i)
               ELSE BigLimb(a, i) % (2 ^ (w % LimbBits))])

RECURSIVE BigAddFrom(_, _, _, _)
BigAddFrom(a, b, i, carry) ==
    IF i > Len(a) /\ i > Len(b)
    THEN (IF carry = 1 THEN <<1>> ELSE <<>>)
    ELSE LET t == BigLimb(a, i) + BigLimb(b, i) + carry
         IN  <<t % LimbBase>> \o BigAddFrom(a, b, i + 1, t \div LimbBase)

BigAdd(a, b) == BigNorm(BigAddFrom(a, b, 1, 0))

RECURSIVE BigLessFrom(_, _, _)
\* a < b, comparing from limb i downwards
BigLessFrom(a, b, i) ==
    IF i = 0 THEN FALSE
    ELSE IF BigLimb(a, i) # BigLimb(b, i) THEN BigLimb(a, i) < BigLimb(b, i)
    ELSE BigLessFrom(a, b, i - 1)

BigLess(a, b) == BigLessFrom(a, b, IF Len(a) > Len(b) THEN Len(a) ELSE Len(b))

BigLeq(a, b) == ~BigLess(b, a)

RECURSIVE BigSubFrom(_, _, _, _)
BigSubFrom(a, b, i, borrow) ==
    IF i > Len(a) THEN <<>>
    ELSE LET t == BigLimb(a, i) - BigLimb(b, i) - borrow
         IN  <<(t + LimbBase) % LimbBase>>
                \o BigSubFrom(a, b, i + 1, IF t < 0 THEN 1 ELSE 0)

\* a - b for a >= b
BigSub(a, b) == BigNorm(BigSubFrom(a, b, 1, 0))

RECURSIVE BigMulSmallFrom(_, _, _, _)
BigMulSmallFrom(a, d, i, carry) ==
    IF i > Len(a)
    THEN (IF carry > 0 THEN <<carry>> ELSE <<>>)
    ELSE LET t == a[i] * d + carry
         IN  <<t % LimbBase>> \o BigMulSmallFrom(a, d, i + 1, t \div LimbBase)

\* a * d for a digit d < LimbBase
BigMulSmall(a, d) == BigNorm(BigMulSmallFrom(a, d, 1, 0))

RECURSIVE BigMulFrom(_, _, _)
BigMulFrom(a, b, i) ==
    IF i > Len(b) THEN <<>>
    ELSE BigAdd(BigShiftLimbs(BigMulSmall(a, b[i]), i - 1), BigMulFrom(a, b, i + 1))

BigMul(a, b) == BigMulFrom(a, b, 1)

RECURSIVE BigDigit(_, _, _, _)
\* the largest digit q + t, t < 2^(k+1), with (q + t) * b <= r
BigDigit(r, b, q, k) ==
    IF k < 0 THEN q
    ELSE IF BigLeq(BigMulSmall(b, q + 2 ^ k), r) THEN BigDigit(r, b, q + 2 ^ k, k - 1)
    ELSE BigDigit(r, b, q, k - 1)

RECURSIVE BigDivFrom(_, _, _, _)
\* long division of a by b from limb i downwards, rem being the remainder
\* so far: <<the quotient's digits from limb i down, the remainder>>
BigDivFrom(a, b, i, rem) ==
    IF i = 0 THEN <<<<>>, rem>>
    ELSE LET r2 == BigNorm(<<a[i]>> \o rem)
             q  == BigDigit(r2, b, 0, LimbBits - 1)
             d  == BigDivFrom(a, b, i - 1, BigSub(r2, BigMulSmall(b, q)))
         IN  <<d[1] \o <<q>>, d[2]>>

\* floor(a / b) for b > 0
BigDiv(a, b) == BigNorm(BigDivFrom(a, b, Len(a), <<>>)[1])

\* a mod b for b > 0
BigMod(a, b) == BigDivFrom(a, b, Len(a), <<>>)[2]

(* ------------------------------------------------------------------ *)
(* Lines 45-47 at the width of the C types: int64_t sizes, an int64_t  *)
(* product and quotient, a uint32_t ratio.  A signed value is the      *)
(* record of its sign and its magnitude, the magnitude a wide natural.        *)
(* ------------------------------------------------------------------ *)

\* INT64_MAX
Int64MaxBig == BigSub(Pow2Big(63), <<1>>)

\* the exponents k of the sizes m * 2^k drawn under SpecWide
WideShifts == {0, 5, 16, 30, 32, 40, 56, 57, 60, 61}

\* the non-negative int64_t sizes drawn under SpecWide
WideSizes ==
    { v \in { BigMul(BigOfNat(m), Pow2Big(k)) : m \in 0 .. MaxMant, k \in WideShifts }
              \cup {Int64MaxBig} : BigLeq(v, Int64MaxBig) }

WideInfos ==
    { FileInfo(cs, us, 0, MZ_COMPRESS_METHOD_STORE, "a.txt") :
        cs \in WideSizes, us \in WideSizes }

Signed(neg, mag) == [kind |-> "value", neg |-> neg /\ mag # <<>>, mag |-> mag]

\* the two's complement reading of the low 64 bits of a natural number
WrapInt64(n) ==
    LET w == BigLow(n, 64)
    IN  IF BigLeq(w, Int64MaxBig) THEN Signed(FALSE, w)
        ELSE Signed(TRUE, BigSub(Pow2Big(64), w))

\* line 47: compressed_size * 100 in int64_t, for compressed_size >= 0.
\* A product above INT64_MAX is a signed overflow, which is undefined: the
\* build either wraps it or traps.
Mul100Int64(cs) ==
    LET p == BigMul(cs, BigOfNat(100))
    IN  IF BigLeq(p, Int64MaxBig) THEN {Signed(FALSE, p)}
        ELSE {WrapInt64(p), [kind |-> "trap"]}

\* line 47: the int64_t division by uncompressed_size > 0, towards zero
Int64Div(p, us) == Signed(p.neg, BigDiv(p.mag, us))

\* the quotient narrowed to 16 bits, as if ratio were a uint16_t
NarrowToUint16(q) == BigLow(q.mag, 16)

\* line 47: (uint32_t) of the quotient, its value modulo 2^32
NarrowToUint32(q) ==
    LET m == BigLow(q.mag, 32)
    IN  IF q.neg /\ m # <<>> THEN BigSub(Pow2Big(32), m) ELSE m

(* ------------------------------------------------------------------ *)
(* Lines 81-91: the date columns                                       *)
(* ------------------------------------------------------------------ *)

\* struct tm tmu_date before mz_zip_time_t_to_tm has filled it
NoTm == [tm_mon |-> 0, tm_year |-> 0]

\* line 81: mz_zip_time_t_to_tm, the library's decoding of modified_date
\* into the month (0..11) and the years since 1900
TimeToTm(d) == [tm_mon |-> d % 12, tm_year |-> d \div 12]

\* a uint32_t is held as its two 16-bit halves
HalfBase == 65536

\* (uint32_t) x for an int x: x modulo 2^32
Uint32OfInt(x) == [hi |-> (x \div HalfBase) % HalfBase, lo |-> x % HalfBase]

\* u + 1 at the width of uint32_t
Uint32Inc(u) ==
    IF u.lo + 1 < HalfBase THEN [hi |-> u.hi, lo |-> u.lo + 1]
    ELSE [hi |-> (u.hi + 1) % HalfBase, lo |-> 0]

\* u % m for 0 < m < 2^15, by long division over the two halves
Uint32Mod(u, m) == ((u.hi % m) * HalfBase + u.lo) % m

\* the number a %u conversion prints, for values below 2^31
Uint32ToNat(u) == u.hi * HalfBase + u.lo

\* line 88: (uint32_t)tmu_date.tm_mon + 1
DisplayMonth(tm) == Uint32ToNat(Uint32Inc(Uint32OfInt(tm.tm_mon)))

\* line 89: (uint32_t)tmu_date.tm_year % 100
DisplayYear(tm) == Uint32Mod(Uint32OfInt(tm.tm_year), 100)

(* ------------------------------------------------------------------ *)
(* State                                                               *)
(* ------------------------------------------------------------------ *)

VARIABLES
    archive,        \* the entries of the archive behind `reader`, in order
    cursor,         \* the reader's current entry: 1..Len(archive), or 0 for none
    handle,         \* "open" or "deleted": the reader object passed in
    pc,             \* position in list_zip_archive
    err,            \* int32_t err
    file_info,      \* mz_zip_file *file_info (the record it points to)
    ratio,          \* uint32_t ratio
    level,          \* int16_t level
    string_method,  \* const char *string_method
    crypt,          \* char crypt
    out,            \* the lines written to stdout, in order
    calls,          \* the reader calls made so far, each with its status
    tmu_date,       \* struct tm tmu_date
    ret             \* the value returned, meaningful when pc = "done"

vars == <<archive, cursor, handle, pc, err, file_info, ratio, level,
          string_method, crypt, out, calls, tmu_date, ret>>

(* ------------------------------------------------------------------ *)
(* Pure parts of the loop body                                         *)
(* ------------------------------------------------------------------ *)

RECURSIVE BitAnd(_, _)
\* a & b for non-negative a, b
BitAnd(a, b) ==
    IF a = 0 \/ b = 0 THEN 0
    ELSE (a % 2) * (b % 2) + 2 * BitAnd(a \div 2, b \div 2)

\* the ratio clamped to 100
Ratio_Clamped(fi) ==
    IF fi.uncompressed_size > 0
    THEN LET q == (fi.compressed_size * 100) \div fi.uncompressed_size
         IN  IF q > 100 THEN 100 ELSE q
    ELSE 0

\* lines 45-47.  The sizes of the model are non-negative and small enough
\* that compressed_size * 100 fits an int64_t and the quotient a uint32_t,
\* so the C division is \div and the cast keeps the value.
Ratio(fi) ==
    IF fi.uncompressed_size > 0
    THEN (fi.compressed_size * 100) \div fi.uncompressed_size
    ELSE 0

\* lines 49-53
Crypt(fi) ==
    IF BitAnd(fi.flag, MZ_ZIP_FLAG_ENCRYPTED) # 0 THEN "*" ELSE " "

\* the crypt marker left as it was when the entry is not encrypted (the
\* else branch dropped)
CryptAssign_NoElse(fi, prev) == IF Crypt(fi) = "*" THEN "*" ELSE prev

\* lines 50-53: the value crypt holds after the if/else, prev being the
\* value it held before
CryptAssign(fi, prev) == Crypt(fi)

\* the sub-level taken with the mask 0xE in place of 0x6
Level_WideMask(fi) == BitAnd(fi.flag, 14) \div 2

\* line 61
Level(fi) == BitAnd(fi.flag, 6) \div 2

\* the switch with the break of the BZIP2 case missing
StringMethod_Fallthrough(fi) ==
    CASE fi.compression_method = MZ_COMPRESS_METHOD_STORE -> "Stored"
      [] fi.compression_method = MZ_COMPRESS_METHOD_DEFLATE ->
            IF Level(fi) = 0 THEN "Defl:N"
            ELSE IF Level(fi) = 1 THEN "Defl:X"
            ELSE IF Level(fi) = 2 \/ Level(fi) = 3 THEN "Defl:F"
            ELSE "Defl:?"
      [] fi.compression_method = MZ_COMPRESS_METHOD_BZIP2 -> "LZMA"
      [] fi.compression_method = MZ_COMPRESS_METHOD_LZMA -> "LZMA"
      [] OTHER -> "?"

\* lines 55-79
StringMethod(fi) ==
    CASE fi.compression_method = MZ_COMPRESS_METHOD_STORE -> "Stored"
      [] fi.compression_method = MZ_COMPRESS_METHOD_DEFLATE ->
            IF Level(fi) = 0 THEN "Defl:N"
            ELSE IF Level(fi) = 1 THEN "Defl:X"
            ELSE IF Level(fi) = 2 \/ Level(fi) = 3 THEN "Defl:F"
            ELSE "Defl:?"
      [] fi.compression_method = MZ_COMPRESS_METHOD_BZIP2 -> "BZip2"
      [] fi.compression_method = MZ_COMPRESS_METHOD_LZMA -> "LZMA"
      [] OTHER -> "?"

(* ------------------------------------------------------------------ *)
(* Lines written to stdout                                             *)
(* ------------------------------------------------------------------ *)

\* line 31
TitleLine == [kind |-> "title"]

\* line 32
DashLine == [kind |-> "dashes"]

\* lines 26, 41, 97: "Error <code> going to first entry in archive", ...
ErrorLine(what, code) == [kind |-> "error", what |-> what, code |-> code]

\* lines 84-91: the arguments of the entry row's printf that the loop body
\* derives or that identify the entry (sizes, ratio, method label, crypt
\* marker, month, two-digit year, filename)
RowLine(fi, r, sm, c, tm) ==
    [kind |-> "row", compressed_size |-> fi.compressed_size,
     uncompressed_size |-> fi.uncompressed_size, ratio |-> r,
     string_method |-> sm, crypt |-> c, month |-> DisplayMonth(tm),
     year |-> DisplayYear(tm), filename |-> fi.filename]

(* ------------------------------------------------------------------ *)
(* The reader library's cursor                                         *)
(* ------------------------------------------------------------------ *)

CursorValid == cursor >= 1 /\ cursor <= Len(archive)

\* what goto_first_entry returns when it does not fail
FirstStatus == IF Len(archive) > 0 THEN MZ_OK ELSE MZ_END_OF_LIST

\* what goto_next_entry returns when it does not fail
NextStatus == IF CursorValid /\ cursor < Len(archive) THEN MZ_OK ELSE MZ_END_OF_LIST

Call(op, st) == [op |-> op, status |-> st]

(* ------------------------------------------------------------------ *)
(* Control flow of list_zip_archive                                    *)
(* ------------------------------------------------------------------ *)

\* the fatal test taking only positive statuses for errors
IsFatal_PositiveOnly(st) == st > 0

\* the fatal test with || in place of &&
IsFatal_Or(st) == st # MZ_OK \/ st # MZ_END_OF_LIST

\* lines 24 and 95
IsFatal(st) == st # MZ_OK /\ st # MZ_END_OF_LIST

\* the fetch test copied from line 24: END_OF_LIST not taken for a failure
FetchFailed_FatalOnly(st) == st # MZ_OK /\ st # MZ_END_OF_LIST

\* line 39
FetchFailed(st) == st # MZ_OK

\* the loop condition inverted: while (err != MZ_OK)
LoopContinues_Inverted(st) == st # MZ_OK

\* line 101
LoopContinues(st) == st = MZ_OK

\* the final return swallowing the status: return MZ_OK
ReturnValue_AlwaysOk(st) == MZ_OK

\* lines 103-106
ReturnValue(st) == IF st = MZ_END_OF_LIST THEN MZ_OK ELSE st

\* line 27: mz_zip_reader_delete(&reader)
AfterFirstFailure == "deleted"

Locals == <<ratio, level, string_method, crypt, tmu_date>>

InitRest ==
    /\ cursor = 0
    /\ handle = "open"
    /\ pc = "first"
    /\ err = MZ_OK
    /\ file_info = NoInfo
    /\ ratio = 0
    /\ level = 0
    /\ string_method = ""
    /\ crypt = " "
    /\ out = <<>>
    /\ calls = <<>>
    /\ tmu_date = NoTm
    /\ ret = MZ_OK

Init ==
    /\ archive \in SeqsUpTo(ListInfos, MaxEntries)
    /\ InitRest

InitEntry ==
    /\ archive \in { <<e>> : e \in EntryInfos }
    /\ InitRest

\* lines 22-32
GotoFirstEntry ==
    /\ pc = "first"
    /\ \E st \in {FirstStatus} \cup FatalCodes :
        /\ calls' = Append(calls, Call("goto_first_entry", st))
        /\ err' = st
        /\ cursor' = IF st = MZ_OK THEN 1 ELSE 0
        /\ IF IsFatal(st)
           THEN /\ out' = Append(out, ErrorLine("first", st))
                /\ handle' = AfterFirstFailure
                /\ ret' = st
                /\ pc' = "done"
           ELSE /\ out' = out \o <<TitleLine, DashLine>>
                /\ handle' = handle
                /\ ret' = ret
                /\ pc' = "info"
    /\ UNCHANGED <<archive, file_info, Locals>>

\* lines 37-43, and 103-106 after the break.  On a position that holds no
\* entry the library may still report MZ_OK and hand out some metadata.
\* The library stores the metadata pointer only when it reports MZ_OK.
EntryGetInfo ==
    /\ pc = "info"
    /\ \E st \in {MZ_OK} \cup FetchFailCodes :
       \E fi \in (IF CursorValid THEN {archive[cursor]} ELSE ListInfos) :
        /\ calls' = Append(calls, Call("entry_get_info", st))
        /\ err' = st
        /\ file_info' = IF st = MZ_OK THEN fi ELSE file_info
        /\ IF FetchFailed(st)
           THEN /\ out' = Append(out, ErrorLine("info", st))
                /\ ret' = ReturnValue(st)
                /\ pc' = "done"
           ELSE /\ pc' = "row"
                /\ out' = out
                /\ ret' = ret
    /\ UNCHANGED <<archive, cursor, handle, Locals>>

\* lines 45-91
PrintEntry ==
    /\ pc = "row"
    /\ ratio' = Ratio(file_info)
    /\ crypt' = CryptAssign(file_info, crypt)
    /\ level' = IF file_info.compression_method = MZ_COMPRESS_METHOD_DEFLATE
                THEN Level(file_info) ELSE level
    /\ string_method' = StringMethod(file_info)
    /\ tmu_date' = TimeToTm(file_info.modified_date)
    /\ out' = Append(out, RowLine(file_info, ratio', string_method', crypt', tmu_date'))
    /\ pc' = "next"
    /\ UNCHANGED <<archive, cursor, handle, err, file_info, calls, ret>>

\* lines 93-106
GotoNextEntry ==
    /\ pc = "next"
    /\ \E st \in {NextStatus} \cup FatalCodes :
        /\ calls' = Append(calls, Call("goto_next_entry", st))
        /\ err' = st
        /\ cursor' = IF st = MZ_OK THEN cursor + 1 ELSE 0
        /\ out' = IF IsFatal(st) THEN Append(out, ErrorLine("next", st)) ELSE out
        /\ IF (~IsFatal(st)) /\ LoopContinues(st)
           THEN pc' = "info" /\ ret' = ret
           ELSE pc' = "done" /\ ret' = ReturnValue(st)
    /\ UNCHANGED <<archive, handle, file_info, Locals>>

Next == GotoFirstEntry \/ EntryGetInfo \/ PrintEntry \/ GotoNextEntry

Spec == Init /\ [][Next]_vars

SpecEntry == InitEntry /\ [][Next]_vars

InitFlags ==
    /\ archive \in { <<e>> : e \in FlagInfos }
    /\ InitRest

SpecFlags == InitFlags /\ [][Next]_vars

InitDate ==
    /\ archive \in { <<e>> : e \in DateInfos }
    /\ InitRest

SpecDate == InitDate /\ [][Next]_vars

\* the state at line 45 of the first iteration: the header is written and
\* the fetch of the only entry has succeeded
InitWide ==
    /\ archive \in { <<e>> : e \in WideInfos }
    /\ cursor = 1
    /\ handle = "open"
    /\ pc = "row"
    /\ err = MZ_OK
    /\ file_info = archive[1]
    /\ ratio = <<>>
    /\ level = 0
    /\ string_method = ""
    /\ crypt = " "
    /\ out = <<TitleLine, DashLine>>
    /\ calls = <<Call("goto_first_entry", MZ_OK), Call("entry_get_info", MZ_OK)>>
    /\ tmu_date = NoTm
    /\ ret = MZ_OK

\* lines 45-47 at the width of the C types
ComputeRatioWide ==
    /\ pc = "row"
    /\ IF BigLess(<<>>, file_info.uncompressed_size)
       THEN \E p \in Mul100Int64(file_info.compressed_size) :
               IF p.kind = "trap"
               THEN pc' = "trap" /\ ratio' = ratio
               ELSE /\ ratio' = NarrowToUint32(Int64Div(p, file_info.uncompressed_size))
                    /\ pc' = "ratio"
       ELSE ratio' = <<>> /\ pc' = "ratio"
    /\ UNCHANGED <<archive, cursor, handle, err, file_info, level, string_method,
                   crypt, out, calls, tmu_date, ret>>

SpecWide == InitWide /\ [][ComputeRatioWide]_vars

\* list_zip_archive is straight-line sequential code and every reader call
\* returns: a step that can be taken is taken
SpecFair == Init /\ [][Next]_vars /\ WF_vars(Next)

(* ------------------------------------------------------------------ *)
(* Vocabulary of the properties                                        *)
(* ------------------------------------------------------------------ *)

Returned == pc = "done"

Header == <<TitleLine, DashLine>>

IsRow(l) == l.kind = "row"

Rows == SelectSeq(out, IsRow)

IsFetch(c) == c.op = "entry_get_info"

IsAdvance(c) == c.op = "goto_next_entry"

IsPosition(c) == c.op = "goto_first_entry"

Fetches == SelectSeq(calls, IsFetch)

Advances == SelectSeq(calls, IsAdvance)

\* a status that is neither OK nor END_OF_LIST
FatalStatus(st) == st \notin {MZ_OK, MZ_END_OF_LIST}

\* the row an entry's metadata stands for
ExpectedRow(e) ==
    RowLine(e, Ratio(e), StringMethod(e), Crypt(e), TimeToTm(e.modified_date))

ExpectedRows(k) == [j \in 1 .. k |-> ExpectedRow(archive[j])]

\* gotoFirstEntry returned OK, every fetch returned OK, every advance
\* returned OK or END_OF_LIST, and the listing has returned
CleanRun ==
    /\ Returned
    /\ Len(calls) >= 1
    /\ calls[1].status = MZ_OK
    /\ \A i \in 1 .. Len(calls) :
         /\ IsFetch(calls[i]) => calls[i].status = MZ_OK
         /\ IsAdvance(calls[i]) => calls[i].status \in {MZ_OK, MZ_END_OF_LIST}

(* ------------------------------------------------------------------ *)
(* C1                                                                  *)
(* ------------------------------------------------------------------ *)

\* C1: when gotoFirstEntry returns OK, every fetch returns OK and the
\* advance returns OK n-1 times and then END_OF_LIST, the output is the
\* header followed by exactly n rows, the i-th row derived from the i-th
\* entry in enumeration order, and the result is MZ_OK.
C1_CleanListing ==
    CleanRun =>
        LET n == Len(Advances)
        IN  /\ n >= 1
            /\ n = Len(archive)
            /\ Len(Fetches) = n
            /\ \A i \in 1 .. n : Advances[i].status = (IF i < n THEN MZ_OK ELSE MZ_END_OF_LIST)
            /\ Rows = ExpectedRows(n)
            /\ out = Header \o ExpectedRows(n)
            /\ ret = MZ_OK

\* a clean listing of an archive in which two entries share a filename
C1_Witness ==
    /\ CleanRun
    /\ Len(archive) >= 2
    /\ archive[1].filename = archive[2].filename
    /\ archive[1] # archive[2]
    /\ Len(Rows) = Len(archive)

(* ------------------------------------------------------------------ *)
(* C2                                                                  *)
(* ------------------------------------------------------------------ *)

\* C2: when gotoFirstEntry returns END_OF_LIST the output is exactly the
\* two header lines and the result is MZ_OK.
C2_EmptyArchive ==
    (Returned /\ Len(calls) >= 1 /\ calls[1].status = MZ_END_OF_LIST)
        => (out = Header /\ ret = MZ_OK)

(* ------------------------------------------------------------------ *)
(* C3                                                                  *)
(* ------------------------------------------------------------------ *)

\* C3: on every path the reader handle passed in stays open: the lister
\* never closes, deletes or destroys it.
C3_HandleStaysOpen == handle = "open"

(* ------------------------------------------------------------------ *)
(* C4                                                                  *)
(* ------------------------------------------------------------------ *)

\* C4: if the fetch fails on the k-th entry after succeeding on entries
\* 1..k-1, exactly the rows of entries 1..k-1 have been emitted, no advance
\* follows the failed fetch, and the failing status is returned as a failed
\* result.
C4_FetchFailure ==
    \A i \in 1 .. Len(calls) :
        (calls[1].status = MZ_OK /\ IsFetch(calls[i]) /\ calls[i].status # MZ_OK)
            => LET k == Len(SelectSeq(SubSeq(calls, 1, i), IsFetch))
               IN  /\ i = Len(calls)
                   /\ Returned
                   /\ Rows = ExpectedRows(k - 1)
                   /\ ret = calls[i].status
                   /\ ret # MZ_OK

(* ------------------------------------------------------------------ *)
(* C5                                                                  *)
(* ------------------------------------------------------------------ *)

\* C5: if gotoFirstEntry returns a status other than OK and END_OF_LIST the
\* lister returns at once: no entry row, no fetch, no advance, and that
\* status as the failed result.
C5_PositionFailure ==
    (Len(calls) >= 1 /\ FatalStatus(calls[1].status))
        => /\ Returned
           /\ Len(calls) = 1
           /\ Rows = <<>>
           /\ ret = calls[1].status
           /\ ret # MZ_OK

C5_Witness ==
    /\ Returned
    /\ Len(calls) = 1
    /\ IsPosition(calls[1])
    /\ calls[1].status = MZ_PARAM_ERROR
    /\ ret = MZ_PARAM_ERROR
    /\ Len(archive) >= 1

(* ------------------------------------------------------------------ *)
(* C6                                                                  *)
(* ------------------------------------------------------------------ *)

\* C6: if the advance returns a status other than OK and END_OF_LIST after
\* m entries were fetched and printed, the lister stops with exactly those
\* m rows, makes no further call, and returns that status as the failed
\* result.
C6_AdvanceFailure ==
    \A i \in 1 .. Len(calls) :
        (IsAdvance(calls[i]) /\ FatalStatus(calls[i].status))
            => LET m == Len(SelectSeq(SubSeq(calls, 1, i), IsFetch))
               IN  /\ i = Len(calls)
                   /\ Returned
                   /\ Len(Rows) = m
                   /\ (calls[1].status = MZ_OK => Rows = ExpectedRows(m))
                   /\ SubSeq(out, 1, 2 + m) = Header \o Rows
                   /\ ret = calls[i].status
                   /\ ret # MZ_OK

\* the advance fails after two entries were listed
C6_Witness ==
    /\ Returned
    /\ Len(calls) = 5
    /\ IsAdvance(calls[5])
    /\ calls[5].status = MZ_EXIST_ERROR
    /\ Len(Rows) = 2
    /\ ret = MZ_EXIST_ERROR

(* ------------------------------------------------------------------ *)
(* C7                                                                  *)
(* ------------------------------------------------------------------ *)

\* C7: the result is MZ_OK only when gotoFirstEntry or gotoNextEntry
\* returned END_OF_LIST; a fetch that returns anything but OK, whatever the
\* number, gives a failed result.
C7_SuccessOnlyAtEndOfList ==
    Returned =>
        /\ (ret = MZ_OK =>
              /\ ~IsFetch(calls[Len(calls)])
              /\ calls[Len(calls)].status = MZ_END_OF_LIST)
        /\ \A i \in 1 .. Len(calls) :
              (IsFetch(calls[i]) /\ calls[i].status # MZ_OK) => ret # MZ_OK

(* ------------------------------------------------------------------ *)
(* C8                                                                  *)
(* ------------------------------------------------------------------ *)

\* C8 as stated: every line written is one of the two header lines or an
\* entry row.
C8_OnlyHeaderAndRows ==
    \A i \in 1 .. Len(out) : out[i].kind \in {"title", "dashes", "row"}

\* C8 amended: every line written is a header line, an entry row or an
\* error line; an error line is written only for a reader call that
\* returned a fatal status (positioning, advance) or a status other than OK
\* (fetch), carries that status, and is the last line of the listing.
C8_LinesWritten ==
    \A i \in 1 .. Len(out) :
        /\ out[i].kind \in {"title", "dashes", "row", "error"}
        /\ out[i].kind = "error" =>
              LET last == calls[Len(calls)]
              IN  /\ i = Len(out)
                  /\ Returned
                  /\ out[i].code = last.status
                  /\ IF IsFetch(last) THEN last.status # MZ_OK
                                      ELSE FatalStatus(last.status)
                  /\ out[i].what = (IF IsFetch(last) THEN "info"
                                    ELSE IF IsAdvance(last) THEN "next" ELSE "first")

\* an error line written after the header and one row
C8_Witness ==
    /\ Returned
    /\ Len(out) = 4
    /\ out[3].kind = "row"
    /\ out[4].kind = "error"
    /\ out[4].what = "info"

(* ------------------------------------------------------------------ *)
(* C9                                                                  *)
(* ------------------------------------------------------------------ *)

\* C9 as stated: once gotoFirstEntry has been called the two header lines
\* are the first two lines of the output, also when it failed.
C9_HeaderAlways ==
    Len(calls) >= 1 =>
        (Len(out) >= 2 /\ out[1] = TitleLine /\ out[2] = DashLine)

\* C9 amended: when gotoFirstEntry returns OK or END_OF_LIST the two header
\* lines are the first two lines of the output and no row precedes them;
\* when it returns a fatal status no header line is written at all.
C9_HeaderUnlessPositionFails ==
    /\ Len(calls) = 0 => out = <<>>
    /\ Len(calls) >= 1 =>
         IF FatalStatus(calls[1].status)
         THEN \A i \in 1 .. Len(out) : out[i].kind \notin {"title", "dashes"}
         ELSE /\ Len(out) >= 2
              /\ out[1] = TitleLine
              /\ out[2] = DashLine
              /\ \A i \in 3 .. Len(out) : out[i].kind \notin {"title", "dashes"}

\* the header precedes the rows of a listing of two entries
C9_Witness ==
    /\ Len(out) >= 4
    /\ out[1] = TitleLine
    /\ out[2] = DashLine
    /\ out[3].kind = "row"
    /\ out[4].kind = "row"

(* ------------------------------------------------------------------ *)
(* C10                                                                 *)
(* ------------------------------------------------------------------ *)

\* C10: the ratio of a row is 0 when the uncompressed size is 0, whatever
\* the compressed size, and otherwise the floor of compressed * 100 /
\* uncompressed, not clamped to 100.
C10_Ratio ==
    \A i \in 1 .. Len(out) :
        IsRow(out[i]) =>
            LET c == out[i].compressed_size
                u == out[i].uncompressed_size
                r == out[i].ratio
            IN  /\ u = 0 => r = 0
                /\ u > 0 => (r * u <= c * 100 /\ c * 100 < (r + 1) * u)
                /\ (c = 50 /\ u = 200) => r = 25
                /\ (c = 300 /\ u = 100) => r = 300

\* a row whose compressed size exceeds its uncompressed size
C10_Witness ==
    \E i \in 1 .. Len(out) :
        /\ IsRow(out[i])
        /\ out[i].compressed_size = 300
        /\ out[i].uncompressed_size = 100
        /\ out[i].ratio = 300

(* ------------------------------------------------------------------ *)
(* C11                                                                 *)
(* ------------------------------------------------------------------ *)

\* the label the table gives a method code and a flags word, the deflate
\* sub-level being bits 1-2 of the flags
TableLabel(cm, fl) ==
    IF cm = 0 THEN "Stored"
    ELSE IF cm = 8 THEN
            (IF (fl \div 2) % 4 = 0 THEN "Defl:N"
             ELSE IF (fl \div 2) % 4 = 1 THEN "Defl:X"
             ELSE "Defl:F")
    ELSE IF cm = 12 THEN "BZip2"
    ELSE IF cm = 14 THEN "LZMA"
    ELSE "?"

\* C11: the method label of every row follows the table for the entry's
\* method and flags; an unknown method gives "?" and the listing goes on;
\* the flags change the label only when the method is Deflate.
C11_MethodLabel ==
    /\ \A i \in 1 .. Len(Rows) :
          calls[1].status = MZ_OK =>
            /\ Rows[i].string_method =
                  TableLabel(archive[i].compression_method, archive[i].flag)
            /\ archive[i].compression_method # MZ_COMPRESS_METHOD_DEFLATE =>
                  Rows[i].string_method = TableLabel(archive[i].compression_method, 0)
    /\ pc = "next" => (Len(Rows) >= 1 /\ string_method = Rows[Len(Rows)].string_method)

\* the listing of an entry of unknown method ends in success with a "?" row
C11_Witness ==
    /\ Returned
    /\ ret = MZ_OK
    /\ Len(Rows) = 1
    /\ archive[1].compression_method = 99
    /\ archive[1].flag = 6
    /\ Rows[1].string_method = "?"

(* ------------------------------------------------------------------ *)
(* C12                                                                 *)
(* ------------------------------------------------------------------ *)

\* C12: the crypt marker of every row is "*" exactly when bit 0 of that
\* entry's own flags word is set and a space otherwise, whatever the flags
\* of the entries listed before it.
C12_CryptMarker ==
    \A i \in 1 .. Len(Rows) :
        /\ Rows[i].crypt \in {"*", " "}
        /\ calls[1].status = MZ_OK =>
              (Rows[i].crypt = "*" <=> archive[i].flag % 2 = 1)

\* an unencrypted entry listed right after an encrypted one
C12_Witness ==
    /\ Len(Rows) >= 2
    /\ calls[1].status = MZ_OK
    /\ archive[1].flag % 2 = 1
    /\ archive[2].flag % 2 = 0
    /\ Rows[1].crypt = "*"
    /\ Rows[2].crypt = " "

(* ------------------------------------------------------------------ *)
(* C13                                                                 *)
(* ------------------------------------------------------------------ *)

\* a status after which the listing must stop: fatal for the two cursor
\* calls, anything but OK for the fetch
StopsListing(c) ==
    IF IsFetch(c) THEN c.status # MZ_OK ELSE FatalStatus(c.status)

\* C13: no reader call is retried: gotoFirstEntry is called once, as the
\* first call; two fetches are never made without a cursor move between
\* them; and a call that returned a fatal status is the last call made.
C13_NoRetry ==
    /\ \A i \in 1 .. Len(calls) : IsPosition(calls[i]) <=> i = 1
    /\ pc # "first" => Len(calls) >= 1
    /\ \A i \in 2 .. Len(calls) : IsFetch(calls[i]) => ~IsFetch(calls[i - 1])
    /\ \A i \in 1 .. Len(calls) :
          StopsListing(calls[i]) => (i = Len(calls) /\ Returned)

\* a fetch failed after two entries and nothing was called after it
C13_Witness ==
    /\ Returned
    /\ Len(calls) = 6
    /\ IsFetch(calls[6])
    /\ calls[6].status = MZ_PARAM_ERROR
    /\ Len(Fetches) = 3

(* ------------------------------------------------------------------ *)
(* C14                                                                 *)
(* ------------------------------------------------------------------ *)

\* C14: every fetch is immediately preceded by a gotoFirstEntry or
\* gotoNextEntry call that returned OK.
C14_FetchOnValidCursor ==
    \A i \in 1 .. Len(calls) :
        IsFetch(calls[i]) =>
            /\ i >= 2
            /\ ~IsFetch(calls[i - 1])
            /\ calls[i - 1].status = MZ_OK

(* ------------------------------------------------------------------ *)
(* C15                                                                 *)
(* ------------------------------------------------------------------ *)

OkFetches == Len(SelectSeq(calls, LAMBDA c : IsFetch(c) /\ c.status = MZ_OK))

\* C15: the metadata a row is built from is the snapshot of a fetch that
\* succeeded in the same iteration, read before the advance of that
\* iteration; one row is emitted per successful fetch.
C15_SnapshotWithinIteration ==
    /\ pc \in {"row", "next"} =>
          /\ IsFetch(calls[Len(calls)])
          /\ calls[Len(calls)].status = MZ_OK
          /\ CursorValid => file_info = archive[cursor]
    /\ pc = "next" => out[Len(out)] = ExpectedRow(file_info)
    /\ Len(Rows) = OkFetches - (IF pc = "row" THEN 1 ELSE 0)
    /\ (Len(Rows) >= 1 /\ calls[1].status = MZ_OK) => Rows = ExpectedRows(Len(Rows))

\* the second iteration built its row from its own snapshot
C15_Witness ==
    /\ pc = "next"
    /\ Len(Rows) = 2
    /\ cursor = 2
    /\ archive[1] # archive[2]
    /\ Rows[2] = ExpectedRow(archive[2])
    /\ Rows[2] # Rows[1]

(* ------------------------------------------------------------------ *)
(* C16                                                                 *)
(* ------------------------------------------------------------------ *)

OkAdvances == Len(SelectSeq(calls, LAMBDA c : IsAdvance(c) /\ c.status = MZ_OK))

\* C16: the listing returns, and when gotoNextEntry has returned OK n-1
\* times at most n fetches and at most n advances have been made.
C16_Terminates ==
    /\ <>Returned
    /\ [](Len(Fetches) <= OkAdvances + 1 /\ Len(Advances) <= OkAdvances + 1)

\* a listing that returned after as many fetches and advances as the
\* archive has entries
C16_Witness ==
    /\ Returned
    /\ Len(archive) = 3
    /\ OkAdvances = 2
    /\ Len(Fetches) = 3
    /\ Len(Advances) = 3

(* ------------------------------------------------------------------ *)
(* C18                                                                 *)
(* ------------------------------------------------------------------ *)

\* C18: for every 16-bit flags word of a deflated entry the sub-level the
\* code computes is (flags >> 1) & 3, lies in 0..3, and the label "Defl:?"
\* is never produced.
C18_DeflateSubLevel ==
    /\ pc = "next" =>
          /\ level = (file_info.flag \div 2) % 4
          /\ level \in 0 .. 3
          /\ string_method \in {"Defl:N", "Defl:X", "Defl:F"}
    /\ \A i \in 1 .. Len(Rows) : Rows[i].string_method # "Defl:?"

\* the row of the entry whose flags word has every bit set
C18_Witness ==
    /\ pc = "next"
    /\ file_info.flag = 65535
    /\ level = 3
    /\ Len(Rows) = 1
    /\ Rows[1].string_method = "Defl:F"

(* ------------------------------------------------------------------ *)
(* C17                                                                 *)
(* ------------------------------------------------------------------ *)

WideProduct == BigMul(file_info.compressed_size, BigOfNat(100))

\* r = floor(compressed_size * 100 / uncompressed_size)
IsFloorRatio(r) ==
    /\ BigLeq(BigMul(r, file_info.uncompressed_size), WideProduct)
    /\ BigLess(WideProduct, BigMul(BigAdd(r, <<1>>), file_info.uncompressed_size))

RatioComputed == pc \in {"ratio", "trap"} /\ file_info.uncompressed_size # <<>>

\* C17 as stated: for every non-negative compressed size and positive
\* uncompressed size the ratio is the floor of compressed * 100 /
\* uncompressed.
C17_ExactAtFullWidth ==
    RatioComputed => (pc = "ratio" /\ IsFloorRatio(ratio))

\* C17 amended: the ratio is that floor whenever compressed * 100 is at
\* most INT64_MAX and the floor is below 2^32; in every case the ratio
\* written is below 2^32.
C17_ExactInRange ==
    /\ (/\ RatioComputed
        /\ BigLeq(WideProduct, Int64MaxBig)
        /\ BigLess(WideProduct, BigMul(Pow2Big(32), file_info.uncompressed_size)))
          => (pc = "ratio" /\ IsFloorRatio(ratio))
    /\ pc = "ratio" => BigLess(ratio, Pow2Big(32))

\* 2^56 bytes packed from 2^32: the ratio 1677721600 needs more than 16
\* bits and the product more than 32
C17_Witness ==
    /\ pc = "ratio"
    /\ file_info.compressed_size = Pow2Big(56)
    /\ file_info.uncompressed_size = Pow2Big(32)
    /\ ratio = BigOfNat(1677721600)

(* ------------------------------------------------------------------ *)
(* C19                                                                 *)
(* ------------------------------------------------------------------ *)

\* C19: for every decoded time the month of the row is tm_mon + 1, in
\* 1..12, and the year of the row is in 0..99 and is the calendar year
\* 1900 + tm_year modulo 100, also for a negative tm_year.
C19_MonthAndYear ==
    pc = "next" =>
        LET row == out[Len(out)]
        IN  /\ tmu_date.tm_mon \in 0 .. 11
            /\ row.month = tmu_date.tm_mon + 1
            /\ row.month \in 1 .. 12
            /\ row.year \in 0 .. 99
            /\ row.year = (1900 + tmu_date.tm_year) % 100

====
